---- MODULE Spec2Model ----
(***************************************************************************)
(* Model of the price validator / fixer (src/src/core.py, parser.py,       *)
(* validator.py, fixer.py, main.py).                                       *)
(*                                                                         *)
(* Numbers.  Prices are Python floats.  They are modelled as exact         *)
(* rationals <<n, d>> (d > 0, lowest terms); every product, quotient, sum  *)
(* and comparison of the code is computed on them.  IEEE-754 rounding is   *)
(* not modelled: equalities below are equalities of exact arithmetic.      *)
(* Python raises ZeroDivisionError on a float division by zero; the model  *)
(* keeps that outcome.                                                     *)
(*                                                                         *)
(* Strings.  A key is the sequence of its characters, so that lower(),     *)
(* strip() and the regular expression of the parser are computed.          *)
(***************************************************************************)
EXTENDS Integers, Sequences, FiniteSets, TLC

(***************************************************************************)
(* Exact rational arithmetic                                               *)
(***************************************************************************)
Abs(n) == IF n < 0 THEN -n ELSE n

RECURSIVE Gcd(_, _)
Gcd(a, b) == IF b = 0 THEN a ELSE Gcd(b, a % b)

Rat(n, d) ==
    IF n = 0 THEN <<0, 1>>
    ELSE LET g == Gcd(Abs(n), Abs(d))
             s == IF d < 0 THEN -1 ELSE 1
         IN  <<(s * n) \div g, (s * d) \div g>>

Int2Rat(n) == <<n, 1>>
RZero == <<0, 1>>
\* products and sums reduce before they multiply, to keep the integers small
RMul(a, b) ==
    IF a[1] = 0 \/ b[1] = 0 THEN RZero
    ELSE LET g1 == Gcd(Abs(a[1]), b[2])
             g2 == Gcd(Abs(b[1]), a[2])
         IN  Rat((a[1] \div g1) * (b[1] \div g2), (a[2] \div g2) * (b[2] \div g1))
RInv(b) == IF b[1] < 0 THEN <<-b[2], -b[1]>> ELSE <<b[2], b[1]>>
RDiv(a, b) == RMul(a, RInv(b))
RAdd(a, b) ==
    IF a[2] = b[2] THEN Rat(a[1] + b[1], a[2])
    ELSE LET g == Gcd(a[2], b[2])
         IN  Rat(a[1] * (b[2] \div g) + b[1] * (a[2] \div g), (a[2] \div g) * b[2])
RSub(a, b) == RAdd(a, <<-b[1], b[2]>>)
\* comparison by integer parts and continued fractions: no cross product
RECURSIVE RCmp(_, _)
RCmp(a, b) ==
    IF a = b THEN 0
    ELSE LET qa == a[1] \div a[2]
             qb == b[1] \div b[2]
             ra == a[1] % a[2]
             rb == b[1] % b[2]
         IN  IF qa # qb THEN (IF qa < qb THEN -1 ELSE 1)
             ELSE IF ra = 0 /\ rb = 0 THEN 0
             ELSE IF ra = 0 THEN -1
             ELSE IF rb = 0 THEN 1
             ELSE RCmp(<<b[2], rb>>, <<a[2], ra>>)
RLt(a, b) == RCmp(a, b) < 0
RLe(a, b) == RCmp(a, b) <= 0
RGt(a, b) == RLt(b, a)
RIsZero(a) == a[1] = 0
RPos(a) == a[1] > 0
RAbs(a) == <<Abs(a[1]), a[2]>>
RMax2(a, b) == IF RLt(a, b) THEN b ELSE a

\* min(...) / max(...) of a non-empty sequence of rationals: the first of
\* the least (greatest) elements, as Python's min and max return it
RMinSeq(s) ==
    s[CHOOSE i \in 1..Len(s) :
        /\ \A j \in 1..Len(s) : ~RLt(s[j], s[i])
        /\ \A j \in 1..(i - 1) : RLt(s[i], s[j])]

RMaxSeq(s) ==
    s[CHOOSE i \in 1..Len(s) :
        /\ \A j \in 1..Len(s) : ~RLt(s[i], s[j])
        /\ \A j \in 1..(i - 1) : RLt(s[j], s[i])]

\* sum(...) of a sequence of rationals.  Exact addition is associative, so
\* the sum is taken by halves.
RECURSIVE RSumSeq(_)
RSumSeq(s) ==
    IF s = <<>> THEN RZero
    ELSE IF Len(s) = 1 THEN RAdd(RZero, s[1])
    ELSE LET h == Len(s) \div 2
         IN  RAdd(RSumSeq(SubSeq(s, 1, h)), RSumSeq(SubSeq(s, h + 1, Len(s))))

\* statistics.median of one, two or three values
Median(ks) ==
    IF Len(ks) = 1 THEN ks[1]
    ELSE IF Len(ks) = 2 THEN RDiv(RAdd(ks[1], ks[2]), Int2Rat(2))
    ELSE LET lo == RMinSeq(ks)
             hi == RMaxSeq(ks)
         IN  RSub(RSub(RSumSeq(ks), lo), hi)

\* float(v) of main.py:26 and validator.py:32: the value as a double.  Every
\* number of the model is exactly representable, so the value is kept; the
\* representation is normalised.
ToFloat(v) == Rat(v[1], v[2])

(***************************************************************************)
(* core.py: enumerations, reference prices and factors                     *)
(***************************************************************************)
Product == {"MTPL", "LIMITED_CASCO", "CASCO"}
Variant == {"COMPACT", "BASIC", "COMFORT", "PREMIUM"}
Deductible == {100, 200, 500}
None == "None"

\* Product.key / Variant.key: the enum value, spelled character by character
ProductKey ==
    [p \in Product |->
        CASE p = "MTPL" -> <<"m", "t", "p", "l">>
          [] p = "LIMITED_CASCO" -> <<"l", "i", "m", "i", "t", "e", "d", "_", "c", "a", "s", "c", "o">>
          [] p = "CASCO" -> <<"c", "a", "s", "c", "o">>]
VariantKey ==
    [v \in Variant |->
        CASE v = "COMPACT" -> <<"c", "o", "m", "p", "a", "c", "t">>
          [] v = "BASIC" -> <<"b", "a", "s", "i", "c">>
          [] v = "COMFORT" -> <<"c", "o", "m", "f", "o", "r", "t">>
          [] v = "PREMIUM" -> <<"p", "r", "e", "m", "i", "u", "m">>]

REFERENCE_AVG_PRICE ==
    [p \in Product |->
        CASE p = "MTPL" -> Int2Rat(400)
          [] p = "LIMITED_CASCO" -> Int2Rat(700)
          [] p = "CASCO" -> Int2Rat(900)]

RATIO_LC_OVER_MTPL == RDiv(REFERENCE_AVG_PRICE["LIMITED_CASCO"], REFERENCE_AVG_PRICE["MTPL"])
RATIO_C_OVER_MTPL == RDiv(REFERENCE_AVG_PRICE["CASCO"], REFERENCE_AVG_PRICE["MTPL"])
RATIO_C_OVER_LC == RDiv(REFERENCE_AVG_PRICE["CASCO"], REFERENCE_AVG_PRICE["LIMITED_CASCO"])

DEDUCTIBLE_FACTOR ==
    [d \in Deductible |->
        CASE d = 100 -> Rat(100, 100)
          [] d = 200 -> Rat(90, 100)
          [] d = 500 -> Rat(80, 100)]

VARIANT_FACTOR ==
    [v \in Variant |->
        CASE v = "COMPACT" -> Rat(100, 100)
          [] v = "BASIC" -> Rat(100, 100)
          [] v = "COMFORT" -> Rat(107, 100)
          [] v = "PREMIUM" -> Rat(114, 100)]

(***************************************************************************)
(* parser.py: DefaultPriceParser                                           *)
(***************************************************************************)
UpperCase == <<"A", "B", "C", "D", "E", "F", "G", "H", "I", "J", "K", "L", "M", "N", "O", "P", "Q", "R", "S", "T", "U", "V", "W", "X", "Y", "Z">>
LowerCase == <<"a", "b", "c", "d", "e", "f", "g", "h", "i", "j", "k", "l", "m", "n", "o", "p", "q", "r", "s", "t", "u", "v", "w", "x", "y", "z">>
Digits == <<"0", "1", "2", "3", "4", "5", "6", "7", "8", "9">>
Whitespace == {" ", "\t", "\n"}

\* str.lower()
LowerChar(c) ==
    IF \E i \in 1..Len(UpperCase) : UpperCase[i] = c
    THEN LowerCase[CHOOSE i \in 1..Len(UpperCase) : UpperCase[i] = c]
    ELSE c
Lower(s) == [i \in 1..Len(s) |-> LowerChar(s[i])]

\* str.strip()
RECURSIVE LStrip(_)
LStrip(s) == IF s # <<>> /\ s[1] \in Whitespace THEN LStrip(Tail(s)) ELSE s
RECURSIVE RStrip(_)
RStrip(s) ==
    IF s # <<>> /\ s[Len(s)] \in Whitespace THEN RStrip(SubSeq(s, 1, Len(s) - 1)) ELSE s
Strip(s) == RStrip(LStrip(s))

IsDigit(c) == \E i \in 1..Len(Digits) : Digits[i] = c
DigitValue(c) == (CHOOSE i \in 1..Len(Digits) : Digits[i] = c) - 1

\* int(ded_str)
RECURSIVE ParseInt(_)
ParseInt(s) ==
    IF s = <<>> THEN 0 ELSE ParseInt(SubSeq(s, 1, Len(s) - 1)) * 10 + DigitValue(s[Len(s)])

StartsWith(s, pre) == Len(s) >= Len(pre) /\ SubSeq(s, 1, Len(pre)) = pre
DropPrefix(s, pre) == SubSeq(s, Len(pre) + 1, Len(s))

\* The matches of ^(limited_casco|casco)_(compact|basic|comfort|premium)_(\d+)$
\* on k, as the set of its group triples (empty: no match).
PatternMatch(k) ==
    { g \in {"LIMITED_CASCO", "CASCO"} \X Variant :
        LET pre == ProductKey[g[1]] \o <<"_">> \o VariantKey[g[2]] \o <<"_">>
        IN  /\ StartsWith(k, pre)
            /\ Len(k) > Len(pre)
            /\ \A i \in (Len(pre) + 1)..Len(k) : IsDigit(k[i]) }

PricingItem(key, product, variant, deductible) ==
    [key |-> key, product |-> product, variant |-> variant, deductible |-> deductible]

\* parse_key raises ValueError exactly when this is FALSE
ParseKeyOk(key) ==
    LET k == Strip(Lower(key))
        m == PatternMatch(k)
    IN  \/ k = ProductKey["MTPL"]
        \/ /\ m # {}
           /\ LET g == CHOOSE x \in m : TRUE
                  pre == ProductKey[g[1]] \o <<"_">> \o VariantKey[g[2]] \o <<"_">>
              IN  ParseInt(DropPrefix(k, pre)) \in Deductible

parse_key(key) ==
    LET k == Strip(Lower(key))
    IN  IF k = ProductKey["MTPL"]
        THEN PricingItem(key, "MTPL", None, None)
        ELSE LET g == CHOOSE x \in PatternMatch(k) : TRUE
                 pre == ProductKey[g[1]] \o <<"_">> \o VariantKey[g[2]] \o <<"_">>
             IN  PricingItem(key, g[1], g[2], ParseInt(DropPrefix(k, pre)))

\* parse_all: one item per key, in the order of the dict
ParseAllOk(keys) == \A i \in 1..Len(keys) : ParseKeyOk(keys[i])
parse_all(keys) == [i \in 1..Len(keys) |-> parse_key(keys[i])]

(***************************************************************************)
(* core.py: grouping helpers.  A Python dict keeps insertion order, and a  *)
(* later item with the same inner key overwrites the earlier one.          *)
(***************************************************************************)
\* the elements of s in the order of their first occurrence
Distinct(s) ==
    LET first == {i \in 1..Len(s) : \A j \in 1..(i - 1) : s[j] # s[i]}
    IN  [k \in 1..Cardinality(first) |->
            s[CHOOSE i \in first : Cardinality({j \in first : j <= i}) = k]]

Range(s) == {s[i] : i \in 1..Len(s)}

\* the concatenation of the sequences of ss, taken by halves
RECURSIVE Concat(_)
Concat(ss) ==
    IF ss = <<>> THEN <<>>
    ELSE IF Len(ss) = 1 THEN ss[1]
    ELSE LET h == Len(ss) \div 2
         IN  Concat(SubSeq(ss, 1, h)) \o Concat(SubSeq(ss, h + 1, Len(ss)))

IsNotMtpl(it) == it.product # "MTPL"
NonMtpl(items) == SelectSeq(items, IsNotMtpl)

\* out.setdefault(e[1], {})[e[2]] = e[3] for every entry e, in order: an
\* inner key holds the value of the last entry that wrote it
GroupEntries(entries) ==
    LET At(outer) == {i \in 1..Len(entries) : entries[i][1] = outer}
        Last(outer, inner) ==
            CHOOSE i \in At(outer) :
                /\ entries[i][2] = inner
                /\ \A j \in At(outer) : entries[j][2] = inner => j <= i
    IN  [outer \in {entries[i][1] : i \in 1..Len(entries)} |->
            [inner \in {entries[i][2] : i \in At(outer)} |->
                entries[Last(outer, inner)][3]]]

\* keys_by_product(items).get(prod, []): the keys of a product, in order
keys_by_product(items, prod) ==
    LET Is(it) == it.product = prod
        sel == SelectSeq(items, Is)
    IN  [i \in 1..Len(sel) |-> sel[i].key]

\* group_by_product_and_variant: (product, variant) -> {deductible -> key};
\* PVOrder is the order of its outer keys
PVOrder(items) ==
    LET nm == NonMtpl(items)
    IN  Distinct([i \in 1..Len(nm) |-> <<nm[i].product, nm[i].variant>>])
group_by_product_and_variant(items) ==
    LET nm == NonMtpl(items)
    IN  GroupEntries([i \in 1..Len(nm) |->
            <<<<nm[i].product, nm[i].variant>>, nm[i].deductible, nm[i].key>>])

\* group_by_product_and_deductible: (product, deductible) -> {variant -> key}
PDOrder(items) ==
    LET nm == NonMtpl(items)
    IN  Distinct([i \in 1..Len(nm) |-> <<nm[i].product, nm[i].deductible>>])
group_by_product_and_deductible(items) ==
    LET nm == NonMtpl(items)
    IN  GroupEntries([i \in 1..Len(nm) |->
            <<<<nm[i].product, nm[i].deductible>>, nm[i].variant, nm[i].key>>])

\* group_by_variant_and_deductible: (variant, deductible) -> {product -> key}
VDOrder(items) ==
    LET nm == NonMtpl(items)
    IN  Distinct([i \in 1..Len(nm) |-> <<nm[i].variant, nm[i].deductible>>])
group_by_variant_and_deductible(items) ==
    LET nm == NonMtpl(items)
    IN  GroupEntries([i \in 1..Len(nm) |->
            <<<<nm[i].variant, nm[i].deductible>>, nm[i].product, nm[i].key>>])

(***************************************************************************)
(* validator.py: DefaultPriceValidator.validate                            *)
(***************************************************************************)
Violation(category, rule, left_key, right_key, left_value, right_value) ==
    [category |-> category, rule |-> rule, left_key |-> left_key,
     right_key |-> right_key, left_value |-> left_value, right_value |-> right_value]

mtpl_key == ProductKey["MTPL"]

\* validate raises ValueError exactly when this is FALSE (validator.py:37)
ValidateOk(prices) == mtpl_key \in DOMAIN prices

\* validator.py:43-59
ProductMinViolations(p, items) ==
    LET mtpl == p[mtpl_key]
        One(prod) ==
            LET keys == keys_by_product(items, prod)
                group_min == RMinSeq([i \in 1..Len(keys) |-> p[keys[i]]])
            IN  IF keys = <<>> THEN <<>>
                ELSE IF ~RLt(mtpl, group_min)
                THEN <<Violation("product",
                                 IF prod = "LIMITED_CASCO" THEN "mtpl < min(limited_casco)"
                                 ELSE "mtpl < min(casco)", mtpl_key,
                                 <<"min", prod>>, mtpl, group_min)>>
                ELSE <<>>
    IN  One("LIMITED_CASCO") \o One("CASCO")

\* validator.py:62-80
CrossViolations(p, items) ==
    LET order == VDOrder(items)
        grouped == group_by_variant_and_deductible(items)
        One(m) ==
            IF "LIMITED_CASCO" \notin DOMAIN m \/ "CASCO" \notin DOMAIN m THEN <<>>
            ELSE LET lc_key == m["LIMITED_CASCO"]
                     c_key == m["CASCO"]
                 IN  IF ~RLt(p[lc_key], p[c_key])
                     THEN <<Violation("product", "limited_casco < casco", lc_key, c_key,
                                      p[lc_key], p[c_key])>>
                     ELSE <<>>
    IN  Concat([i \in 1..Len(order) |-> One(grouped[order[i]])])

\* DeductibleViolations that skips the 200 > 500 check of a group once its
\* 100 > 200 check has failed
DeductibleViolationsShortCircuit(p, items) ==
    LET order == PVOrder(items)
        grouped == group_by_product_and_variant(items)
        One(m) ==
            IF 100 \in DOMAIN m /\ 200 \in DOMAIN m /\ ~RGt(p[m[100]], p[m[200]])
            THEN <<Violation("deductible", "100 > 200", m[100], m[200], p[m[100]], p[m[200]])>>
            ELSE IF 200 \in DOMAIN m /\ 500 \in DOMAIN m /\ ~RGt(p[m[200]], p[m[500]])
            THEN <<Violation("deductible", "200 > 500", m[200], m[500], p[m[200]], p[m[500]])>>
            ELSE <<>>
    IN  Concat([i \in 1..Len(order) |-> One(grouped[order[i]])])

\* validator.py:83-114
DeductibleViolations(p, items) ==
    LET order == PVOrder(items)
        grouped == group_by_product_and_variant(items)
        One(m) ==
            (IF 100 \in DOMAIN m /\ 200 \in DOMAIN m /\ ~RGt(p[m[100]], p[m[200]])
             THEN <<Violation("deductible", "100 > 200", m[100], m[200], p[m[100]], p[m[200]])>>
             ELSE <<>>)
            \o
            (IF 200 \in DOMAIN m /\ 500 \in DOMAIN m /\ ~RGt(p[m[200]], p[m[500]])
             THEN <<Violation("deductible", "200 > 500", m[200], m[500], p[m[200]], p[m[500]])>>
             ELSE <<>>)
    IN  Concat([i \in 1..Len(order) |-> One(grouped[order[i]])])

\* base_keys = [m[v] for v in (COMPACT, BASIC) if v in m]
BaseKeys(m) ==
    (IF "COMPACT" \in DOMAIN m THEN <<m["COMPACT"]>> ELSE <<>>)
    \o (IF "BASIC" \in DOMAIN m THEN <<m["BASIC"]>> ELSE <<>>)

\* base = max(p[k] for k in base_keys)
BaseOf(p, m) == LET bk == BaseKeys(m) IN RMaxSeq([i \in 1..Len(bk) |-> p[bk[i]]])

\* validator.py:117-154
VariantViolations(p, items) ==
    LET order == PDOrder(items)
        grouped == group_by_product_and_deductible(items)
        One(m) ==
            IF BaseKeys(m) = <<>> THEN <<>>
            ELSE LET base == BaseOf(p, m)
                     lower == IF "COMFORT" \in DOMAIN m THEN p[m["COMFORT"]] ELSE base
                     left_name == IF "COMFORT" \in DOMAIN m THEN <<"comfort">>
                                  ELSE <<"base(compact/basic)">>
                 IN  (IF "COMFORT" \in DOMAIN m /\ ~RLt(base, p[m["COMFORT"]])
                      THEN <<Violation("variant", "base < comfort", <<"base(compact/basic)">>,
                                       m["COMFORT"], base, p[m["COMFORT"]])>>
                      ELSE <<>>)
                     \o
                     (IF "PREMIUM" \in DOMAIN m /\ ~RLt(lower, p[m["PREMIUM"]])
                      THEN <<Violation("variant", "comfort/base < premium", left_name,
                                       m["PREMIUM"], lower, p[m["PREMIUM"]])>>
                      ELSE <<>>)
    IN  Concat([i \in 1..Len(order) |-> One(grouped[order[i]])])

\* the list validate returns when it does not raise
validate(prices, items) ==
    LET p == [k \in DOMAIN prices |-> ToFloat(prices[k])]
    IN  ProductMinViolations(p, items) \o CrossViolations(p, items)
        \o DeductibleViolations(p, items) \o VariantViolations(p, items)

(***************************************************************************)
(* fixer.py: DefaultPriceFixer.  A sub-pass takes the accumulator          *)
(* [prices, log, changed, error] and returns it updated; error names the   *)
(* exception that ended the sub-pass ("" when it returned).                *)
(***************************************************************************)
tau_outlier == 5

\* report.log(msg): the entry keeps the tag and the subject of the message
LogEntry(tag, subject) == [tag |-> tag, subject |-> subject]

\* writes: the keys assigned to (prices[k] = ...), in order
Acc(prices, log, changed, error, writes) ==
    [prices |-> prices, log |-> log, changed |-> changed, error |-> error, writes |-> writes]

\* abs(x) > 1e-12.  A rational of the model has a denominator below 2^31,
\* so its absolute value exceeds 1e-12 exactly when it is not zero.
ExceedsTolerance(x) == RAbs(x)[1] > 0

\* mean of the prices of a non-empty key list (fixer.py:64, 69)
Mean(prices, keys) ==
    RDiv(RSumSeq([i \in 1..Len(keys) |-> ToFloat(prices[keys[i]])]), Int2Rat(Len(keys)))

\* the list ks of set_mtpl_anchor (fixer.py:59-70)
AnchorKs(prices, items) ==
    LET lc_keys == keys_by_product(items, "LIMITED_CASCO")
        c_keys == keys_by_product(items, "CASCO")
    IN  <<RDiv(ToFloat(prices[mtpl_key]), REFERENCE_AVG_PRICE["MTPL"])>>
        \o (IF lc_keys # <<>>
            THEN <<RDiv(Mean(prices, lc_keys), REFERENCE_AVG_PRICE["LIMITED_CASCO"])>>
            ELSE <<>>)
        \o (IF c_keys # <<>>
            THEN <<RDiv(Mean(prices, c_keys), REFERENCE_AVG_PRICE["CASCO"])>>
            ELSE <<>>)

\* fixer.py:47-90
set_mtpl_anchor(acc, items) ==
    IF mtpl_key \notin DOMAIN acc.prices THEN [acc EXCEPT !.error = "KeyError"]
    ELSE
    LET prices == acc.prices
        mtpl == ToFloat(prices[mtpl_key])
        ks == AnchorKs(prices, items)
        k_mtpl == ks[1]
        k_ref == Median(ks)
    IN  IF RIsZero(k_ref) \/ RIsZero(k_mtpl) THEN [acc EXCEPT !.error = "ZeroDivisionError"]
        ELSE LET ratio == RMax2(RDiv(k_mtpl, k_ref), RDiv(k_ref, k_mtpl))
                 new_mtpl == RMul(REFERENCE_AVG_PRICE["MTPL"], k_ref)
             IN  IF RGt(ratio, Int2Rat(tau_outlier)) /\ ExceedsTolerance(RSub(new_mtpl, mtpl))
                 THEN Acc([prices EXCEPT ![mtpl_key] = new_mtpl],
                          Append(acc.log, LogEntry("anchor", mtpl_key)), TRUE, "", Append(acc.writes, mtpl_key))
                 ELSE acc

\* ProductMinStep that shifts the group by target_min - current_min instead of
\* scaling it
ProductMinStepShift(acc, items, mtpl, product, ratio) ==
    LET keys == keys_by_product(items, product)
        prices == acc.prices
        current_min == RMinSeq([i \in 1..Len(keys) |-> ToFloat(prices[keys[i]])])
        target_min == RMul(ratio, mtpl)
    IN  IF acc.error # "" \/ keys = <<>> THEN acc
        ELSE IF RGt(current_min, mtpl) THEN acc
        ELSE IF RIsZero(current_min) THEN [acc EXCEPT !.error = "ZeroDivisionError"]
        ELSE Acc([k \in DOMAIN prices |->
                    IF k \in Range(keys)
                    THEN RAdd(ToFloat(prices[k]), RSub(target_min, current_min))
                    ELSE prices[k]],
                 Append(acc.log, LogEntry("product-min", ProductKey[product])), TRUE, "", acc.writes \o keys)

\* one turn of the loop of enforce_product_minima_ratios (fixer.py:118-140);
\* mtpl is the value read once before the loop (fixer.py:115)
ProductMinStep(acc, items, mtpl, product, ratio) ==
    LET keys == keys_by_product(items, product)
        prices == acc.prices
        current_min == RMinSeq([i \in 1..Len(keys) |-> ToFloat(prices[keys[i]])])
        target_min == RMul(ratio, mtpl)
    IN  IF acc.error # "" \/ keys = <<>> THEN acc
        ELSE IF RGt(current_min, mtpl) THEN acc
        ELSE IF RIsZero(current_min) THEN [acc EXCEPT !.error = "ZeroDivisionError"]
        ELSE LET scale == RDiv(target_min, current_min)
             IN  Acc([k \in DOMAIN prices |->
                        IF k \in Range(keys) THEN RMul(ToFloat(prices[k]), scale)
                        ELSE prices[k]],
                     Append(acc.log, LogEntry("product-min", ProductKey[product])), TRUE, "", acc.writes \o keys)

\* fixer.py:98-142
enforce_product_minima_ratios(acc, items) ==
    IF mtpl_key \notin DOMAIN acc.prices THEN [acc EXCEPT !.error = "KeyError"]
    ELSE LET mtpl == ToFloat(acc.prices[mtpl_key])
         IN  ProductMinStep(
                 ProductMinStep(acc, items, mtpl, "LIMITED_CASCO", RATIO_LC_OVER_MTPL),
                 items, mtpl, "CASCO", RATIO_C_OVER_MTPL)

\* CrossStep that takes casco = limited_casco for ordered (>= for >)
CrossStepNonStrict(acc, m) ==
    IF "LIMITED_CASCO" \notin DOMAIN m \/ "CASCO" \notin DOMAIN m THEN acc
    ELSE LET lc_key == m["LIMITED_CASCO"]
             c_key == m["CASCO"]
             lc_price == ToFloat(acc.prices[lc_key])
             c_price == ToFloat(acc.prices[c_key])
         IN  IF ~RLt(c_price, lc_price) THEN acc
             ELSE Acc([acc.prices EXCEPT ![c_key] = RMul(RATIO_C_OVER_LC, lc_price)],
                      Append(acc.log, LogEntry("product", c_key)), TRUE, "", Append(acc.writes, c_key))

\* one turn of the loop of enforce_limited_casco_less_than_casco (fixer.py:160-176)
CrossStep(acc, m) ==
    IF "LIMITED_CASCO" \notin DOMAIN m \/ "CASCO" \notin DOMAIN m THEN acc
    ELSE LET lc_key == m["LIMITED_CASCO"]
             c_key == m["CASCO"]
             lc_price == ToFloat(acc.prices[lc_key])
             c_price == ToFloat(acc.prices[c_key])
         IN  IF RGt(c_price, lc_price) THEN acc
             ELSE Acc([acc.prices EXCEPT ![c_key] = RMul(RATIO_C_OVER_LC, lc_price)],
                      Append(acc.log, LogEntry("product", c_key)), TRUE, "", Append(acc.writes, c_key))

\* the loop over the groups; an exception would end it
RECURSIVE CrossLoop(_, _, _, _)
CrossLoop(acc, order, grouped, i) ==
    IF acc.error # "" \/ i > Len(order) THEN acc
    ELSE CrossLoop(CrossStep(acc, grouped[order[i]]), order, grouped, i + 1)

\* fixer.py:144-178
enforce_limited_casco_less_than_casco(acc, items) ==
    CrossLoop(acc, VDOrder(items), group_by_variant_and_deductible(items), 1)

\* the flag violates of enforce_deductible_order (fixer.py:201-209)
DeductibleViolates(prices, m) ==
    LET p100 == ToFloat(prices[m[100]])
    IN  \/ 200 \in DOMAIN m /\ ~RGt(p100, ToFloat(prices[m[200]]))
        \/ /\ 200 \in DOMAIN m
           /\ 500 \in DOMAIN m
           /\ RLe(ToFloat(prices[m[200]]), ToFloat(prices[m[500]]))

\* DeductibleRebuild that derives each tier from the tier above it
DeductibleRebuildChained(acc, m, d) ==
    IF d \notin DOMAIN m THEN acc
    ELSE LET above == IF d = 500 /\ 200 \in DOMAIN m THEN m[200] ELSE m[100]
         IN  Acc([acc.prices EXCEPT ![m[d]] =
                        RMul(DEDUCTIBLE_FACTOR[d], ToFloat(acc.prices[above]))],
                 Append(acc.log, LogEntry("deductible", m[d])), TRUE, "", Append(acc.writes, m[d]))

\* the rebuild for d in (D200, D500) (fixer.py:215-222)
DeductibleRebuild(acc, m, d) ==
    IF d \notin DOMAIN m THEN acc
    ELSE Acc([acc.prices EXCEPT ![m[d]] = RMul(DEDUCTIBLE_FACTOR[d], ToFloat(acc.prices[m[100]]))],
             Append(acc.log, LogEntry("deductible", m[d])), TRUE, "", Append(acc.writes, m[d]))

\* DeductibleStep whose rebuild runs over every deductible, 100 included
DeductibleStepFrom100Down(acc, m) ==
    IF 100 \notin DOMAIN m THEN acc
    ELSE IF ~DeductibleViolates(acc.prices, m) THEN acc
    ELSE DeductibleRebuild(DeductibleRebuild(DeductibleRebuild(acc, m, 100), m, 200), m, 500)

\* DeductibleStep without the test of fixer.py:211: the ladder is rebuilt always
DeductibleStepBlind(acc, m) ==
    IF 100 \notin DOMAIN m THEN acc
    ELSE DeductibleRebuild(DeductibleRebuild(acc, m, 200), m, 500)

\* one turn of the loop of enforce_deductible_order (fixer.py:195-222)
DeductibleStep(acc, m) ==
    IF 100 \notin DOMAIN m THEN acc
    ELSE IF ~DeductibleViolates(acc.prices, m) THEN acc
    ELSE DeductibleRebuild(DeductibleRebuild(acc, m, 200), m, 500)

\* the loop over the groups; an exception would end it
RECURSIVE DeductibleLoop(_, _, _, _)
DeductibleLoop(acc, order, grouped, i) ==
    IF acc.error # "" \/ i > Len(order) THEN acc
    ELSE DeductibleLoop(DeductibleStep(acc, grouped[order[i]]), order, grouped, i + 1)

\* fixer.py:180-224
enforce_deductible_order(acc, items) ==
    DeductibleLoop(acc, PVOrder(items), group_by_product_and_variant(items), 1)

\* the flag violates of enforce_variant_order (fixer.py:249-256); m has a base key
VariantViolates(prices, m) ==
    LET base == BaseOf(prices, m)
        lower == IF "COMFORT" \in DOMAIN m THEN ToFloat(prices[m["COMFORT"]]) ELSE base
    IN  \/ "COMFORT" \in DOMAIN m /\ RLe(ToFloat(prices[m["COMFORT"]]), base)
        \/ "PREMIUM" \in DOMAIN m /\ RLe(ToFloat(prices[m["PREMIUM"]]), lower)

\* VariantRebuild that derives premium from the rebuilt comfort
VariantRebuildChained(acc, m, v, base) ==
    IF v \notin DOMAIN m THEN acc
    ELSE LET from == IF v = "PREMIUM" /\ "COMFORT" \in DOMAIN m
                     THEN ToFloat(acc.prices[m["COMFORT"]]) ELSE base
         IN  Acc([acc.prices EXCEPT ![m[v]] = RMul(VARIANT_FACTOR[v], from)],
                 Append(acc.log, LogEntry("variant", m[v])), TRUE, "", Append(acc.writes, m[v]))

\* the rebuild of one tier from base (fixer.py:262-274)
VariantRebuild(acc, m, v, base) ==
    IF v \notin DOMAIN m THEN acc
    ELSE Acc([acc.prices EXCEPT ![m[v]] = RMul(VARIANT_FACTOR[v], base)],
             Append(acc.log, LogEntry("variant", m[v])), TRUE, "", Append(acc.writes, m[v]))

\* VariantStep that logs one entry for the rebuilt ladder instead of one per
\* rewritten cell
VariantStepLogsOnce(acc, m) ==
    IF BaseKeys(m) = <<>> THEN acc
    ELSE IF ~VariantViolates(acc.prices, m) THEN acc
    ELSE LET base == BaseOf(acc.prices, m)
             done == VariantRebuild(VariantRebuild(acc, m, "COMFORT", base), m, "PREMIUM", base)
         IN  [done EXCEPT !.log = Append(acc.log, LogEntry("variant", BaseKeys(m)[1]))]

\* one turn of the loop of enforce_variant_order (fixer.py:242-274)
VariantStep(acc, m) ==
    IF BaseKeys(m) = <<>> THEN acc
    ELSE IF ~VariantViolates(acc.prices, m) THEN acc
    ELSE LET base == BaseOf(acc.prices, m)
         IN  VariantRebuild(VariantRebuild(acc, m, "COMFORT", base), m, "PREMIUM", base)

\* the loop over the groups; an exception would end it
RECURSIVE VariantLoop(_, _, _, _)
VariantLoop(acc, order, grouped, i) ==
    IF acc.error # "" \/ i > Len(order) THEN acc
    ELSE VariantLoop(VariantStep(acc, grouped[order[i]]), order, grouped, i + 1)

\* fixer.py:226-276
enforce_variant_order(acc, items) ==
    VariantLoop(acc, PDOrder(items), group_by_product_and_deductible(items), 1)

(***************************************************************************)
(* The price tables of the model.  A table is a sequence of <<key, price>> *)
(* pairs with distinct keys: a dict in insertion order.                    *)
(***************************************************************************)
MaxEdits == 1

DeductibleDigits ==
    [d \in Deductible |->
        CASE d = 100 -> <<"1", "0", "0">>
          [] d = 200 -> <<"2", "0", "0">>
          [] d = 500 -> <<"5", "0", "0">>]

KeyOf(prod, var, d) ==
    ProductKey[prod] \o <<"_">> \o VariantKey[var] \o <<"_">> \o DeductibleDigits[d]

VariantOrder == <<"COMPACT", "BASIC", "COMFORT", "PREMIUM">>
DeductibleOrder == <<100, 200, 500>>

\* the complete consistent table: mtpl, then per product, variant and
\* deductible the price reference * variant factor * deductible factor
ProductBlock(prod) ==
    Concat([i \in 1..4 |->
        [j \in 1..3 |->
            <<KeyOf(prod, VariantOrder[i], DeductibleOrder[j]),
              RMul(RMul(REFERENCE_AVG_PRICE[prod], VARIANT_FACTOR[VariantOrder[i]]),
                   DEDUCTIBLE_FACTOR[DeductibleOrder[j]])>>]])

ConsistentTable ==
    <<<<mtpl_key, REFERENCE_AVG_PRICE["MTPL"]>>>>
    \o ProductBlock("LIMITED_CASCO") \o ProductBlock("CASCO")

\* an edit is a set of cell overrides <<key, price>>
Quartered ==
    { <<ConsistentTable[i][1], RDiv(ConsistentTable[i][2], Int2Rat(4))>> :
        i \in 2..Len(ConsistentTable) }

EditOptions ==
    { {<<mtpl_key, Int2Rat(0)>>},
      {<<mtpl_key, Int2Rat(1)>>},
      {<<mtpl_key, Int2Rat(560)>>},
      {<<mtpl_key, Int2Rat(800)>>},
      {<<KeyOf("LIMITED_CASCO", "BASIC", 100), Int2Rat(2000)>>},
      {<<KeyOf("LIMITED_CASCO", "COMFORT", 100), Int2Rat(350)>>,
       <<KeyOf("LIMITED_CASCO", "PREMIUM", 100), Int2Rat(420)>>},
      {<<KeyOf("CASCO", "COMPACT", 500), Int2Rat(0)>>},
      {<<KeyOf("CASCO", "BASIC", 100), Int2Rat(700)>>},
      {<<KeyOf("CASCO", "BASIC", 200), Int2Rat(700)>>},
      {<<KeyOf("CASCO", "BASIC", 500), Int2Rat(2700)>>},
      {<<KeyOf("CASCO", "BASIC", 200), Int2Rat(1800)>>,
       <<KeyOf("CASCO", "BASIC", 500), Int2Rat(2700)>>},
      {<<KeyOf("CASCO", "BASIC", 200), Int2Rat(890)>>,
       <<KeyOf("CASCO", "COMFORT", 100), Int2Rat(905)>>},
      {<<KeyOf("CASCO", "COMFORT", 100), Int2Rat(900)>>},
      {<<KeyOf("CASCO", "COMFORT", 100), Int2Rat(905)>>,
       <<KeyOf("CASCO", "COMFORT", 200), Int2Rat(700)>>},
      {<<KeyOf("LIMITED_CASCO", "BASIC", 100), Int2Rat(2000)>>,
       <<KeyOf("CASCO", "BASIC", 200), Int2Rat(1800)>>},
      Quartered }

\* at most MaxEdits edits, no two of them on the same cell
EditSets ==
    { E \in SUBSET EditOptions :
        /\ Cardinality(E) <= MaxEdits
        /\ \A a, b \in E : a # b => {x[1] : x \in a} \cap {x[1] : x \in b} = {} }

\* sets of keys left out of the table
DropSets ==
    { {},
      {KeyOf("CASCO", "COMPACT", 100), KeyOf("CASCO", "BASIC", 100)},
      {KeyOf("CASCO", v, d) : v \in Variant, d \in Deductible},
      {KeyOf(q, v, d) : q \in {"LIMITED_CASCO", "CASCO"}, v \in Variant, d \in Deductible} }

EditedTable(drop, E) ==
    LET Keep(kv) == kv[1] \notin drop
        kept == SelectSeq(ConsistentTable, Keep)
        cells == UNION E
    IN  [i \in 1..Len(kept) |->
            IF \E e \in cells : e[1] = kept[i][1]
            THEN <<kept[i][1], (CHOOSE e \in cells : e[1] = kept[i][1])[2]>>
            ELSE kept[i]]

\* tables whose keys are spelled in other ways, or are not keys at all
OddTables ==
    { <<<<<<"M", "T", "P", "L">>, Int2Rat(400)>>>>,
      <<<<<<" ", "m", "t", "p", "l", " ">>, Int2Rat(400)>>, <<<<"c", "a", "s", "c", "o", "_", "b", "a", "s", "i", "c", "_", "1", "0", "0">>, Int2Rat(900)>>>>,
      <<<<<<"m", "t", "p", "l">>, Int2Rat(400)>>, <<<<"c", "a", "s", "c", "o", "_", "b", "a", "s", "i", "c", "_", "0", "1", "0", "0">>, Int2Rat(900)>>>>,
      <<<<<<"m", "t", "p", "l">>, Int2Rat(400)>>, <<<<"c", "a", "s", "c", "o", "_", "b", "a", "s", "i", "c", "_", "3", "0", "0">>, Int2Rat(100)>>>>,
      <<<<<<"m", "t", "p", "l">>, Int2Rat(400)>>, <<<<"l", "i", "m", "i", "t", "e", "d", "c", "a", "s", "c", "o", "_", "b", "a", "s", "i", "c", "_", "1", "0", "0">>, Int2Rat(700)>>, <<<<"c", "a", "s", "c", "o", "_", "b", "a", "s", "i", "c", "_", "1", "0", "0">>, Int2Rat(300)>>>>,
      <<<<<<"c", "a", "s", "c", "o", "_", "b", "a", "s", "i", "c", "_", "1", "0", "0">>, Int2Rat(900)>>, <<<<"c", "a", "s", "c", "o", "_", "b", "a", "s", "i", "c", "_", "2", "0", "0">>, Int2Rat(950)>>>>,
      <<<<<<"m", "t", "p", "l">>, Int2Rat(400)>>, <<<<"C", "A", "S", "C", "O", "_", "B", "A", "S", "I", "C", "_", "1", "0", "0">>, Int2Rat(1000)>>, <<<<"c", "a", "s", "c", "o", "_", "b", "a", "s", "i", "c", "_", "1", "0", "0">>, Int2Rat(350)>>>>,
      <<<<<<"M", "t", "p", "l">>, Int2Rat(300)>>, <<<<"m", "t", "p", "l">>, Int2Rat(400)>>, <<<<" ", "L", "i", "m", "i", "t", "e", "d", "_", "C", "a", "s", "c", "o", "_", "C", "o", "m", "f", "o", "r", "t", "_", "2", "0", "0", "\t">>, Int2Rat(350)>>>>,
      <<<<<<"m", "t", "p", "l">>, Int2Rat(400)>>, <<<<"c", "a", "s", "c", "o", "_", "b", "a", "s", "i", "c", "_">>, Int2Rat(900)>>>>,
      <<<<<<"m", "t", "p", "l">>, Int2Rat(400)>>, <<<<"c", "a", "s", "c", "o", "_", "b", "a", "s", "i", "c", "_", "1", "0", "0", "x">>, Int2Rat(900)>>>>,
      <<<<<<"m", "t", "p", "l">>, Int2Rat(400)>>, <<<<"m", "t", "p", "l", "_", "b", "a", "s", "i", "c", "_", "1", "0", "0">>, Int2Rat(900)>>>> }

Tables ==
    { EditedTable(drop, E) : drop \in DropSets, E \in EditSets } \cup OddTables

TableKeys(t) == [i \in 1..Len(t) |-> t[i][1]]
TablePrices(t) == [k \in Range(TableKeys(t)) |-> (CHOOSE kv \in Range(t) : kv[1] = k)[2]]

(***************************************************************************)
(* main.py: PricingEngine.validate_and_fix, and a client that parses a     *)
(* table and calls DefaultPriceFixer.fix_pass on it once (mode "fix_pass") *)
(***************************************************************************)
DefaultMaxIterations == 10
MaxIterationsChoices == {1, 2, DefaultMaxIterations}

VARIABLES
    mode,               \* "engine": validate_and_fix; "fix_pass": one direct fix_pass
    enable_mtpl_anchor, \* DefaultPriceFixer.enable_mtpl_anchor
    max_iterations,     \* PricingEngine.max_iterations
    callerKeys,         \* the caller's dict: its keys in order
    callerPrices,       \* the caller's dict: key -> price
    inputPrices,        \* the caller's dict as it was when the call was made
    pc,                 \* position in validate_and_fix / fix_pass
    prices,             \* the dict the validator and the fixer work on
    items,              \* parse_all(prices)
    report,             \* FixReport
    current,            \* the violations found at the top of the loop
    converged,
    iterations_used,
    changed,            \* the local changed of fix_pass
    outcome,            \* "", "FixResult", "returned" or the exception raised
    passStart,          \* prices when the last fix_pass was entered
    subStart,           \* sub-pass name -> prices before it ran, in the last fix_pass
    subLog,             \* length of fix_log before the last sub-pass that ran
    lastSub,            \* name of the last sub-pass that ran
    writes,             \* the keys the fixer has assigned to, in order
    passLog,            \* length of fix_log when the last fix_pass was entered
    fixPasses,          \* number of fix_pass calls
    validations         \* number of validations at the top of the loop

vars == <<mode, enable_mtpl_anchor, max_iterations, callerKeys, callerPrices, inputPrices, pc, prices,
          items, report, current, converged, iterations_used, changed, outcome,
          passStart, subStart, subLog, lastSub, writes, passLog, fixPasses, validations>>

config == <<mode, enable_mtpl_anchor, max_iterations, callerKeys, inputPrices>>
ghost == <<passStart, subStart, subLog, lastSub, writes, passLog>>

FixReport == [violations_before |-> <<>>, violations_after |-> <<>>, fix_log |-> <<>>]

Init ==
    /\ \E t \in Tables :
        /\ callerKeys = TableKeys(t)
        /\ callerPrices = TablePrices(t)
        /\ inputPrices = TablePrices(t)
    /\ \/ mode = "engine" /\ enable_mtpl_anchor = TRUE /\ max_iterations \in MaxIterationsChoices
       \/ mode = "fix_pass" /\ enable_mtpl_anchor \in BOOLEAN /\ max_iterations = DefaultMaxIterations
    /\ pc = "start"
    /\ prices = <<>>
    /\ items = <<>>
    /\ report = FixReport
    /\ current = <<>>
    /\ converged = FALSE
    /\ iterations_used = 0
    /\ changed = FALSE
    /\ outcome = ""
    /\ passStart = <<>>
    /\ subStart = <<>>
    /\ subLog = 0
    /\ lastSub = ""
    /\ writes = <<>>
    /\ passLog = 0
    /\ fixPasses = 0
    /\ validations = 0

\* ParseAll that leaves the keys it cannot parse out of the items
ParseAllSkipInvalid ==
    /\ pc = "start"
    /\ prices' = IF mode = "engine"
                 THEN [k \in DOMAIN callerPrices |-> ToFloat(callerPrices[k])]
                 ELSE callerPrices
    /\ items' = parse_all(SelectSeq(callerKeys, ParseKeyOk))
    /\ pc' = IF mode = "engine" THEN "validate_before" ELSE "fix_pass"
    /\ UNCHANGED <<config, callerPrices, report, current, converged, iterations_used,
                   changed, outcome, ghost, fixPasses, validations>>

\* main.py:26-27: copy the dict with float prices, parse the keys once.  In
\* mode "fix_pass" the client parses and hands its own dict to the fixer.
ParseAll ==
    /\ pc = "start"
    /\ prices' = IF mode = "engine"
                 THEN [k \in DOMAIN callerPrices |-> ToFloat(callerPrices[k])]
                 ELSE callerPrices
    /\ IF ParseAllOk(callerKeys)
       THEN /\ items' = parse_all(callerKeys)
            /\ pc' = IF mode = "engine" THEN "validate_before" ELSE "fix_pass"
            /\ UNCHANGED outcome
       ELSE /\ outcome' = "ValueError: Invalid key"
            /\ pc' = "error"
            /\ UNCHANGED items
    /\ UNCHANGED <<config, callerPrices, report, current, converged, iterations_used,
                   changed, ghost, fixPasses, validations>>

\* main.py:29-33
ValidateBefore ==
    /\ pc = "validate_before"
    /\ IF ValidateOk(prices)
       THEN /\ report' = [report EXCEPT !.violations_before = validate(prices, items)]
            /\ pc' = "loop"
            /\ UNCHANGED outcome
       ELSE /\ outcome' = "ValueError: Input must contain key"
            /\ pc' = "error"
            /\ UNCHANGED report
    /\ converged' = FALSE
    /\ iterations_used' = 0
    /\ UNCHANGED <<config, callerPrices, prices, items, current, changed, ghost,
                   fixPasses, validations>>

\* LoopValidate that counts an iteration only when it goes on to the fixer
LoopValidateUncountedConvergence ==
    /\ pc = "loop"
    /\ iterations_used < max_iterations
    /\ validations' = validations + 1
    /\ current' = validate(prices, items)
    /\ IF current' = <<>>
       THEN converged' = TRUE /\ pc' = "final" /\ UNCHANGED iterations_used
       ELSE UNCHANGED converged /\ pc' = "fix_pass" /\ iterations_used' = iterations_used + 1
    /\ UNCHANGED <<config, callerPrices, prices, items, report, changed, outcome, ghost,
                   fixPasses>>

\* LoopValidate without the test of main.py:39: the fixer runs on every iteration
LoopValidateAlwaysFix ==
    /\ pc = "loop"
    /\ iterations_used < max_iterations
    /\ iterations_used' = iterations_used + 1
    /\ validations' = validations + 1
    /\ current' = validate(prices, items)
    /\ UNCHANGED converged /\ pc' = "fix_pass"
    /\ UNCHANGED <<config, callerPrices, prices, items, report, changed, outcome, ghost,
                   fixPasses>>

\* main.py:35-41: the top of one iteration
LoopValidate ==
    /\ pc = "loop"
    /\ iterations_used < max_iterations
    /\ iterations_used' = iterations_used + 1
    /\ validations' = validations + 1
    /\ current' = validate(prices, items)
    /\ IF current' = <<>>
       THEN converged' = TRUE /\ pc' = "final"
       ELSE UNCHANGED converged /\ pc' = "fix_pass"
    /\ UNCHANGED <<config, callerPrices, prices, items, report, changed, outcome, ghost,
                   fixPasses>>

\* fixer.py:39-40: entry of fix_pass
FixPassBegin ==
    /\ pc = "fix_pass"
    /\ changed' = FALSE
    /\ passStart' = prices
    /\ subStart' = <<>>
    /\ passLog' = Len(report.fix_log)
    /\ fixPasses' = fixPasses + 1
    /\ pc' = IF enable_mtpl_anchor THEN "anchor" ELSE "minima"
    /\ UNCHANGED <<config, callerPrices, prices, items, report, current, converged,
                   iterations_used, outcome, subLog, lastSub, writes, validations>>

\* one sub-pass of fix_pass: run it on the dict and the log, keep what it did
SubPass(at, name, next, acc) ==
    /\ pc = at
    /\ prices' = acc.prices
    /\ callerPrices' = IF mode = "fix_pass" THEN acc.prices ELSE callerPrices
    /\ report' = [report EXCEPT !.fix_log = acc.log]
    /\ changed' = acc.changed
    /\ subStart' = (name :> prices) @@ subStart
    /\ subLog' = Len(report.fix_log)
    /\ lastSub' = name
    /\ writes' = acc.writes
    /\ IF acc.error = ""
       THEN pc' = next /\ UNCHANGED outcome
       ELSE pc' = "error" /\ outcome' = acc.error
    /\ UNCHANGED <<config, items, current, converged, iterations_used, passStart,
                   passLog, fixPasses, validations>>

\* fixer.py:40-41
SetMtplAnchor ==
    SubPass("anchor", "anchor", "minima",
            set_mtpl_anchor(Acc(prices, report.fix_log, changed, "", writes), items))

\* fixer.py:42, 92-96 (first half of enforce_product_type_order)
EnforceProductMinimaRatios ==
    SubPass("minima", "minima", "cross",
            enforce_product_minima_ratios(Acc(prices, report.fix_log, changed, "", writes), items))

\* fixer.py:95 (second half of enforce_product_type_order)
EnforceLimitedCascoLessThanCasco ==
    SubPass("cross", "cross", "deductible",
            enforce_limited_casco_less_than_casco(Acc(prices, report.fix_log, changed, "", writes), items))

\* fixer.py:43
EnforceDeductibleOrder ==
    SubPass("deductible", "deductible", "variant",
            enforce_deductible_order(Acc(prices, report.fix_log, changed, "", writes), items))

\* fixer.py:44
EnforceVariantOrder ==
    SubPass("variant", "variant", "fix_return",
            enforce_variant_order(Acc(prices, report.fix_log, changed, "", writes), items))

\* FixPassReturn without the break of main.py:43-44: the loop goes on after a
\* pass that changed nothing
FixPassReturnNoBreak ==
    /\ pc = "fix_return"
    /\ IF mode = "fix_pass"
       THEN pc' = "done" /\ outcome' = "returned"
       ELSE /\ UNCHANGED outcome
            /\ pc' = IF iterations_used >= max_iterations THEN "final" ELSE "loop"
    /\ UNCHANGED <<config, callerPrices, prices, items, report, current, converged,
                   iterations_used, changed, ghost, fixPasses, validations>>

\* FixPassReturn that takes "nothing changed" for convergence
FixPassReturnStallConverges ==
    /\ pc = "fix_return"
    /\ IF mode = "fix_pass"
       THEN pc' = "done" /\ outcome' = "returned" /\ UNCHANGED converged
       ELSE /\ UNCHANGED outcome
            /\ converged' = ~changed
            /\ pc' = IF ~changed \/ iterations_used >= max_iterations THEN "final" ELSE "loop"
    /\ UNCHANGED <<config, callerPrices, prices, items, report, current,
                   iterations_used, changed, ghost, fixPasses, validations>>

\* fixer.py:45 and main.py:35, 43-44: fix_pass returns changed; the engine
\* leaves the loop when nothing changed or the cap is reached
FixPassReturn ==
    /\ pc = "fix_return"
    /\ IF mode = "fix_pass"
       THEN pc' = "done" /\ outcome' = "returned"
       ELSE /\ UNCHANGED outcome
            /\ pc' = IF ~changed \/ iterations_used >= max_iterations THEN "final" ELSE "loop"
    /\ UNCHANGED <<config, callerPrices, prices, items, report, current, converged,
                   iterations_used, changed, ghost, fixPasses, validations>>

\* main.py:46-47
FinalValidate ==
    /\ pc = "final"
    /\ report' = [report EXCEPT !.violations_after = validate(prices, items)]
    /\ outcome' = "FixResult"
    /\ pc' = "done"
    /\ UNCHANGED <<config, callerPrices, prices, items, current, converged, iterations_used,
                   changed, ghost, fixPasses, validations>>

Next ==
    \/ ParseAll
    \/ ValidateBefore
    \/ LoopValidate
    \/ FixPassBegin
    \/ SetMtplAnchor
    \/ EnforceProductMinimaRatios
    \/ EnforceLimitedCascoLessThanCasco
    \/ EnforceDeductibleOrder
    \/ EnforceVariantOrder
    \/ FixPassReturn
    \/ FinalValidate

Spec == Init /\ [][Next]_vars

(***************************************************************************)
(* Properties                                                              *)
(***************************************************************************)
\* validate_and_fix has validated its input: report.violations_before is
\* the list validate returned on it
InputValidated ==
    /\ mode = "engine"
    /\ pc \notin {"start", "validate_before"}
    /\ ~(pc = "error" /\ fixPasses = 0)

\* C1: on a table on which validate returns no violations, validate_and_fix
\* raises nothing, invokes no fixer pass and logs nothing, and it returns the
\* input prices key by key, converged = TRUE and iterations = 1.
C1_EngineIdempotent ==
    (InputValidated /\ report.violations_before = <<>>) =>
        /\ pc # "error"
        /\ fixPasses = 0
        /\ report.fix_log = <<>>
        /\ pc = "done" =>
            /\ outcome = "FixResult"
            /\ prices = inputPrices
            /\ callerPrices = inputPrices
            /\ converged
            /\ iterations_used = 1

C1_Witness ==
    /\ InputValidated
    /\ pc = "done"
    /\ Len(callerKeys) = 25
    /\ report.violations_before = <<>>
    /\ converged
    /\ prices = inputPrices

\* a direct fix_pass has ended, by a return or by an exception
FixPassEnded == mode = "fix_pass" /\ fixPasses = 1 /\ pc \in {"done", "error"}

\* validate returns no violations on the table the fix_pass was entered with
CompliantAtEntry == ValidateOk(passStart) /\ validate(passStart, items) = <<>>

\* the anchor sub-pass leaves this table alone: no division by zero and
\* max(k_mtpl / k_ref, k_ref / k_mtpl) <= tau_outlier
AnchorWithinTolerance(table) ==
    LET ks == AnchorKs(table, items)
        k_ref == Median(ks)
    IN  /\ ~RIsZero(ks[1])
        /\ ~RIsZero(k_ref)
        /\ RLe(RMax2(RDiv(ks[1], k_ref), RDiv(k_ref, ks[1])), Int2Rat(tau_outlier))

\* C2 as stated: on a table with no violations one fix_pass with the anchor
\* correction enabled returns changed = FALSE, changes no price (mtpl
\* included) and logs nothing.  Stated here for strictly positive prices only.
C2_AsStated ==
    (FixPassEnded /\ enable_mtpl_anchor /\ CompliantAtEntry
        /\ \A k \in DOMAIN passStart : RPos(passStart[k])) =>
        /\ pc = "done"
        /\ ~changed
        /\ prices = passStart
        /\ report.fix_log = <<>>

\* C2 amended: on a table with no violations one fix_pass returns changed =
\* FALSE, changes no price and logs nothing when the anchor correction is
\* disabled, or enabled with mtpl within the outlier tolerance.
C2_FixPassIdempotent ==
    (FixPassEnded /\ CompliantAtEntry
        /\ (~enable_mtpl_anchor \/ AnchorWithinTolerance(passStart))) =>
        /\ pc = "done"
        /\ ~changed
        /\ prices = passStart
        /\ report.fix_log = <<>>

C2_Witness ==
    /\ FixPassEnded
    /\ pc = "done"
    /\ enable_mtpl_anchor
    /\ Len(callerKeys) = 25
    /\ CompliantAtEntry
    /\ AnchorWithinTolerance(passStart)
    /\ ~changed

\* C3: once converged is set, validate on the prices returns no violations,
\* up to and including the returned FixResult, whose violations_after is empty.
C3_ConvergedIsClean ==
    converged =>
        /\ validate(prices, items) = <<>>
        /\ pc = "done" => report.violations_after = <<>>

C3_Witness ==
    /\ pc = "done"
    /\ converged
    /\ fixPasses >= 1
    /\ report.violations_before # <<>>
    /\ report.violations_after = <<>>

\* the table has mtpl and the 24 product/variant/deductible keys, all prices > 0
FullPositiveInput ==
    /\ Range(callerKeys) =
         {mtpl_key} \cup {KeyOf(q, v, d) : q \in {"LIMITED_CASCO", "CASCO"},
                                           v \in Variant, d \in Deductible}
    /\ \A k \in DOMAIN inputPrices : RPos(inputPrices[k])

\* C4: with the default cap of 10 iterations validate_and_fix returns
\* converged = TRUE on every full table of strictly positive prices.
C4_DefaultCapSuffices ==
    (mode = "engine" /\ max_iterations = DefaultMaxIterations /\ FullPositiveInput
        /\ pc \in {"done", "error"}) =>
        (pc = "done" /\ converged)

\* in the deductible group m of table p: price(200) = 0.90 * price(100) and
\* price(500) = 0.80 * price(100), for the keys that exist
LadderFrom100(p, m) ==
    /\ 200 \in DOMAIN m => p[m[200]] = RMul(Rat(90, 100), p[m[100]])
    /\ 500 \in DOMAIN m => p[m[500]] = RMul(Rat(80, 100), p[m[100]])

LadderFromBase(p, m) ==
    /\ "COMFORT" \in DOMAIN m => p[m["COMFORT"]] = RMul(Rat(107, 100), BaseOf(p, m))
    /\ "PREMIUM" \in DOMAIN m => p[m["PREMIUM"]] = RMul(Rat(114, 100), BaseOf(p, m))

MinOver(p, keys) == RMinSeq([i \in 1..Len(keys) |-> p[keys[i]]])

\* C7: right after the product-floor sub-pass, for LIMITED_CASCO (ratio 1.75)
\* and CASCO (ratio 2.25) with positive prices: a group whose minimum was <=
\* mtpl has every price multiplied by ratio * mtpl / minimum, so the quotient
\* of any two of its prices is kept and its new minimum is ratio * mtpl; a
\* group whose minimum exceeded mtpl is unchanged.
C7_FloorScaling ==
    (lastSub = "minima" /\ pc = "cross") =>
        \A q \in {"LIMITED_CASCO", "CASCO"} :
            LET keys == keys_by_product(items, q)
                old == subStart["minima"]
                ratio == IF q = "LIMITED_CASCO" THEN Rat(175, 100) ELSE Rat(225, 100)
                mtpl == old[mtpl_key]
                current_min == MinOver(old, keys)
            IN  (keys # <<>> /\ \A k \in Range(keys) : RPos(old[k])) =>
                    IF RLe(current_min, mtpl)
                    THEN /\ \A k \in Range(keys) :
                              prices[k] = RMul(old[k], RDiv(RMul(ratio, mtpl), current_min))
                         /\ \A a, b \in Range(keys) :
                              RDiv(prices[a], prices[b]) = RDiv(old[a], old[b])
                         /\ MinOver(prices, keys) = RMul(ratio, mtpl)
                    ELSE \A k \in Range(keys) : prices[k] = old[k]

C7_Witness ==
    /\ lastSub = "minima"
    /\ pc = "cross"
    /\ LET keys == keys_by_product(items, "LIMITED_CASCO")
           old == subStart["minima"]
       IN  /\ Len(keys) = 12
           /\ \A k \in Range(keys) : RPos(old[k])
           /\ RLe(MinOver(old, keys), old[mtpl_key])
           /\ \E a, b \in Range(keys) : old[a] # old[b]
           /\ \A k \in Range(keys) : prices[k] # old[k]
           /\ MinOver(prices, keys) = RMul(Rat(175, 100), old[mtpl_key])

\* C8: right after the cross-product sub-pass, for every (variant, deductible)
\* pair with both products: casco = (900/700) * limited_casco if casco <=
\* limited_casco held before, else casco is unchanged; no other price, neither
\* a LIMITED_CASCO price nor mtpl, is changed; and with positive prices every
\* shared pair has limited_casco < casco.
C8_CrossRebase ==
    (lastSub = "cross" /\ pc = "deductible") =>
        LET old == subStart["cross"]
            grouped == group_by_variant_and_deductible(items)
            shared == {g \in DOMAIN grouped : {"LIMITED_CASCO", "CASCO"} \subseteq DOMAIN grouped[g]}
            rebased == {grouped[g]["CASCO"] : g \in {x \in shared :
                            RLe(old[grouped[x]["CASCO"]], old[grouped[x]["LIMITED_CASCO"]])}}
        IN  /\ \A g \in shared :
                LET lc == grouped[g]["LIMITED_CASCO"]
                    c == grouped[g]["CASCO"]
                IN  /\ prices[c] = IF RLe(old[c], old[lc])
                                   THEN RMul(Rat(900, 700), old[lc]) ELSE old[c]
                    /\ RPos(old[lc]) => RLt(prices[lc], prices[c])
            /\ \A k \in DOMAIN prices : k \notin rebased => prices[k] = old[k]

C8_Witness ==
    /\ lastSub = "cross"
    /\ pc = "deductible"
    /\ LET old == subStart["cross"]
           grouped == group_by_variant_and_deductible(items)
       IN  /\ Cardinality(DOMAIN grouped) = 12
           /\ \E g, h \in DOMAIN grouped :
                /\ DOMAIN grouped[g] = {"LIMITED_CASCO", "CASCO"}
                /\ DOMAIN grouped[h] = {"LIMITED_CASCO", "CASCO"}
                /\ RPos(old[grouped[g]["LIMITED_CASCO"]])
                /\ RLe(old[grouped[g]["CASCO"]], old[grouped[g]["LIMITED_CASCO"]])
                /\ prices[grouped[g]["CASCO"]] # old[grouped[g]["CASCO"]]
                /\ RLt(old[grouped[h]["LIMITED_CASCO"]], old[grouped[h]["CASCO"]])

\* key forms, on the key lower-cased and trimmed
CanonicalKeys ==
    {mtpl_key} \cup {KeyOf(q, v, d) : q \in {"LIMITED_CASCO", "CASCO"},
                                      v \in Variant, d \in Deductible}

RECURSIVE DropLeadingZeros(_)
DropLeadingZeros(s) == IF s # <<>> /\ s[1] = "0" THEN DropLeadingZeros(Tail(s)) ELSE s

\* 'mtpl' or {limited_casco|casco}_{compact|basic|comfort|premium}_{100|200|500}
StrictForm(key) == Strip(Lower(key)) \in CanonicalKeys

\* the same, with the deductible written as any digit string of value 100, 200 or 500
IntegerForm(key) ==
    LET k == Strip(Lower(key))
    IN  \/ k = mtpl_key
        \/ \E q \in {"LIMITED_CASCO", "CASCO"}, v \in Variant, d \in Deductible :
            LET pre == ProductKey[q] \o <<"_">> \o VariantKey[v] \o <<"_">>
            IN  StartsWith(k, pre) /\ DropLeadingZeros(DropPrefix(k, pre)) = DeductibleDigits[d]

HasMtplEntry == \E i \in 1..Len(callerKeys) : Strip(Lower(callerKeys[i])) = mtpl_key

\* validate_and_fix has not got past its two checks: no fixer pass, no
\* FixResult, the caller's map as it was, and an error if it has ended
FailsOutright ==
    /\ pc \in {"start", "validate_before", "error"}
    /\ fixPasses = 0
    /\ report.fix_log = <<>>
    /\ callerPrices = inputPrices
    /\ pc = "error" =>
         outcome \in {"ValueError: Invalid key", "ValueError: Input must contain key"}

\* C9 as stated: a key that is neither 'mtpl' nor of the form
\* {product}_{variant}_{100|200|500}, or the absence of an MTPL entry, makes
\* validate_and_fix fail before any fixer pass, the caller's map unchanged.
C9_AsStated ==
    (mode = "engine"
        /\ ((\E i \in 1..Len(callerKeys) : ~StrictForm(callerKeys[i])) \/ ~HasMtplEntry))
    => FailsOutright

\* C9 amended: the same, where the deductible of a key may be any digit
\* string whose integer value is 100, 200 or 500 (casco_basic_0100 is accepted).
C9_NoPartialSuccess ==
    (mode = "engine"
        /\ ((\E i \in 1..Len(callerKeys) : ~IntegerForm(callerKeys[i])) \/ ~HasMtplEntry))
    => FailsOutright

C9_Witness ==
    /\ mode = "engine"
    /\ pc = "error"
    /\ HasMtplEntry
    /\ \E i \in 1..Len(callerKeys) :
        /\ ~IntegerForm(callerKeys[i])
        /\ RLt(inputPrices[callerKeys[i]], inputPrices[mtpl_key])
    /\ FailsOutright

\* C10: validate raises the missing-anchor error exactly when no key of the
\* table parses to product MTPL.
C10_MissingAnchorIffNoMtplItem ==
    (mode = "engine" /\ items # <<>> /\ pc # "validate_before") =>
        (outcome = "ValueError: Input must contain key"
            <=> ~\E i \in 1..Len(items) : items[i].product = "MTPL")

(***************************************************************************)
(* C11: the checks of the four rule families, stated on the cells of the   *)
(* table.  The price of a cell (product, variant, deductible) is the price *)
(* of the last key of the table spelled for it.                            *)
(***************************************************************************)
CellItems(its, q, v, d) ==
    LET Is(it) == it.product = q /\ it.variant = v /\ it.deductible = d
    IN  SelectSeq(its, Is)

HasCell(its, q, v, d) == CellItems(its, q, v, d) # <<>>

CellPrice(p, its, q, v, d) ==
    LET c == CellItems(its, q, v, d) IN ToFloat(p[c[Len(c)].key])

Check(rule, q, v, d) == [rule |-> rule, product |-> q, variant |-> v, deductible |-> d]

FloorChecksFailed(p, its) ==
    { Check("floor", q, "-", 0) : q \in
        { q \in {"LIMITED_CASCO", "CASCO"} :
            \E i \in 1..Len(its) :
                its[i].product = q /\ RLe(ToFloat(p[its[i].key]), ToFloat(p[mtpl_key])) } }

CrossChecksFailed(p, its) ==
    { Check("limited_casco < casco", "-", c[1], c[2]) : c \in
        { c \in Variant \X Deductible :
            /\ HasCell(its, "LIMITED_CASCO", c[1], c[2])
            /\ HasCell(its, "CASCO", c[1], c[2])
            /\ RLe(CellPrice(p, its, "CASCO", c[1], c[2]),
                   CellPrice(p, its, "LIMITED_CASCO", c[1], c[2])) } }

DeductibleChecksFailed(p, its) ==
    { Check(IF c[3] = 100 THEN "100 > 200" ELSE "200 > 500", c[1], c[2], 0) : c \in
        { c \in {"LIMITED_CASCO", "CASCO"} \X Variant \X {100, 200} :
            LET lo == IF c[3] = 100 THEN 200 ELSE 500
            IN  /\ HasCell(its, c[1], c[2], c[3])
                /\ HasCell(its, c[1], c[2], lo)
                /\ RLe(CellPrice(p, its, c[1], c[2], c[3]), CellPrice(p, its, c[1], c[2], lo)) } }

\* some present base variant (compact, basic) of the group is not below x
BaseNotBelow(p, its, q, d, x) ==
    \E b \in {"COMPACT", "BASIC"} :
        HasCell(its, q, b, d) /\ RLe(x, CellPrice(p, its, q, b, d))

VariantChecksFailed(p, its) ==
    { Check(c[3], c[1], "-", c[2]) : c \in
        { c \in {"LIMITED_CASCO", "CASCO"} \X Deductible \X {"base < comfort", "comfort/base < premium"} :
            /\ \E b \in {"COMPACT", "BASIC"} : HasCell(its, c[1], b, c[2])
            /\ IF c[3] = "base < comfort"
               THEN /\ HasCell(its, c[1], "COMFORT", c[2])
                    /\ BaseNotBelow(p, its, c[1], c[2], CellPrice(p, its, c[1], "COMFORT", c[2]))
               ELSE /\ HasCell(its, c[1], "PREMIUM", c[2])
                    /\ IF HasCell(its, c[1], "COMFORT", c[2])
                       THEN RLe(CellPrice(p, its, c[1], "PREMIUM", c[2]),
                                CellPrice(p, its, c[1], "COMFORT", c[2]))
                       ELSE BaseNotBelow(p, its, c[1], c[2],
                                         CellPrice(p, its, c[1], "PREMIUM", c[2])) } }

ChecksFailed(p, its) ==
    FloorChecksFailed(p, its) \cup CrossChecksFailed(p, its)
    \cup DeductibleChecksFailed(p, its) \cup VariantChecksFailed(p, its)

ItemOf(its, key) == CHOOSE it \in Range(its) : it.key = key

\* the check a reported violation is about
CheckOf(viol, its) ==
    IF viol.rule = "mtpl < min(limited_casco)" THEN Check("floor", "LIMITED_CASCO", "-", 0)
    ELSE IF viol.rule = "mtpl < min(casco)" THEN Check("floor", "CASCO", "-", 0)
    ELSE LET it == ItemOf(its, viol.right_key)
         IN  IF viol.rule = "limited_casco < casco"
             THEN Check(viol.rule, "-", it.variant, it.deductible)
             ELSE IF viol.category = "deductible"
             THEN Check(viol.rule, it.product, it.variant, 0)
             ELSE Check(viol.rule, it.product, "-", it.deductible)

CategoryRank(category) ==
    CASE category = "product" -> 1 [] category = "deductible" -> 2 [] category = "variant" -> 3

\* viols is the list of the failed checks of table p: one violation per
\* failed check, none else, ordered product, deductible, variant
ReportsExactly(viols, p, its) ==
    /\ {CheckOf(viols[i], its) : i \in 1..Len(viols)} = ChecksFailed(p, its)
    /\ Len(viols) = Cardinality(ChecksFailed(p, its))
    /\ \A i, j \in 1..Len(viols) :
        i < j => CategoryRank(viols[i].category) <= CategoryRank(viols[j].category)

\* C11: at each of its three call sites validate returns exactly one
\* violation per failed check of the four rule families, ordered product,
\* deductible, variant (so the list is empty exactly when all checks hold),
\* and the table it was called on is unchanged.
C11_ValidatorReportsAll ==
    /\ (mode = "engine" /\ pc = "loop" /\ validations = 0)
            => ReportsExactly(report.violations_before, prices, items)
    /\ (mode = "engine" /\ pc = "fix_pass") => ReportsExactly(current, prices, items)
    /\ (mode = "engine" /\ pc = "final" /\ converged) => ReportsExactly(current, prices, items)
    /\ (mode = "engine" /\ pc = "done")
            => ReportsExactly(report.violations_after, prices, items)
    /\ (mode = "engine" /\ pc \in {"loop", "fix_pass", "done"} /\ fixPasses = 0)
            => prices = [k \in DOMAIN inputPrices |-> ToFloat(inputPrices[k])]

\* a table in which both deductible checks of one group fail and checks of
\* two other categories fail too has been validated
C11_Witness ==
    /\ mode = "engine"
    /\ pc = "fix_pass"
    /\ \E i, j \in 1..Len(current) :
        /\ i < j
        /\ current[i].rule = "100 > 200"
        /\ current[j].rule = "200 > 500"
        /\ ItemOf(items, current[i].left_key).variant = ItemOf(items, current[j].left_key).variant
        /\ ItemOf(items, current[i].left_key).product = ItemOf(items, current[j].left_key).product
    /\ \E i \in 1..Len(current) : current[i].category = "variant"
    /\ ReportsExactly(current, prices, items)

(***************************************************************************)
(* C12: fix_log against the assignments the fixer made                     *)
(***************************************************************************)
ProductOfKey(subject) == CHOOSE q \in Product : ProductKey[q] = subject

\* the keys a log accounts for: the key an entry names, or every key of the
\* product an entry of the floor sub-pass names
LoggedKeys(log, its) ==
    Concat([i \in 1..Len(log) |->
        IF log[i].tag = "product-min"
        THEN keys_by_product(its, ProductOfKey(log[i].subject))
        ELSE <<log[i].subject>>])

FixPassReturnsTrueIffLogged ==
    pc = "fix_return" => (changed <=> Len(report.fix_log) > passLog)

\* C12 as stated: fix_log has exactly one entry per price cell written, in
\* the order of the writes, and fix_pass returns true exactly when it
\* appended an entry in that pass.
C12_AsStated ==
    /\ Len(report.fix_log) = Len(writes)
    /\ \A i \in 1..Len(report.fix_log) :
        i <= Len(writes) => report.fix_log[i].subject = writes[i]
    /\ FixPassReturnsTrueIffLogged

\* C12 amended: fix_log has, in the order applied, one entry per cell
\* written by the anchor, cross-product, deductible and variant sub-passes
\* and one entry per product group scaled by the floor sub-pass (which writes
\* every key of the group); fix_pass returns true exactly when it appended an
\* entry in that pass.
C12_LogAccounting ==
    /\ LoggedKeys(report.fix_log, items) = writes
    /\ FixPassReturnsTrueIffLogged

C12_Witness ==
    /\ pc = "fix_return"
    /\ changed
    /\ \E i, j, k \in 1..Len(report.fix_log) :
        /\ i < j /\ j < k
        /\ report.fix_log[i].tag = "product-min"
        /\ report.fix_log[j].tag = "deductible"
        /\ report.fix_log[k].tag = "variant"
    /\ Len(writes) > Len(report.fix_log)
    /\ Len(report.fix_log) > passLog

(***************************************************************************)
(* C13: the stall path of the loop                                         *)
(***************************************************************************)
\* the last fix_pass of validate_and_fix has returned False
LastPassReportedNoChange ==
    mode = "engine" /\ fixPasses > 0 /\ ~changed /\ pc \in {"fix_return", "loop", "final", "done"}

\* C13: when validation found violations and the fixer pass reports no
\* change, the loop stops at once (it is never re-entered) with converged
\* false, iterations the number of that iteration, the prices of before the
\* pass and a non-empty violations_after; and a result with converged false
\* and iterations < max_iterations comes from a pass that reported no change.
C13_StallDetection ==
    /\ LastPassReportedNoChange =>
        /\ pc # "loop"
        /\ ~converged
        /\ current # <<>>
        /\ prices = passStart
        /\ iterations_used = fixPasses
        /\ iterations_used = validations
        /\ pc = "done" =>
            /\ outcome = "FixResult"
            /\ report.violations_after # <<>>
            /\ report.violations_after = current
    /\ (mode = "engine" /\ pc = "done" /\ outcome = "FixResult"
            /\ ~converged /\ iterations_used < max_iterations)
        => LastPassReportedNoChange

\* a run has stalled below the cap
C13_Witness ==
    /\ mode = "engine"
    /\ pc = "done"
    /\ outcome = "FixResult"
    /\ ~converged
    /\ ~changed
    /\ fixPasses > 0
    /\ iterations_used < max_iterations
    /\ report.violations_after # <<>>
    /\ report.fix_log = <<>>

(***************************************************************************)
(* C14: bounded termination                                                *)
(***************************************************************************)
\* validate_and_fix has parsed the keys of its table (main.py:27), and the
\* table has the key mtpl
ParseableWithMtpl ==
    mode = "engine" /\ items # <<>> /\ mtpl_key \in DOMAIN prices

IterationAccounting ==
    /\ fixPasses <= max_iterations
    /\ validations <= max_iterations
    /\ pc = "done" =>
        /\ outcome = "FixResult"
        /\ 1 <= iterations_used /\ iterations_used <= max_iterations
        /\ iterations_used = validations
        /\ fixPasses = IF converged THEN iterations_used - 1 ELSE iterations_used

PcRank ==
    CASE pc = "start" -> 11 [] pc = "validate_before" -> 10 [] pc = "loop" -> 9
      [] pc = "fix_pass" -> 8 [] pc = "anchor" -> 7 [] pc = "minima" -> 6
      [] pc = "cross" -> 5 [] pc = "deductible" -> 4 [] pc = "variant" -> 3
      [] pc = "fix_return" -> 2 [] pc = "final" -> 1 [] pc = "done" -> 0
      [] pc = "error" -> 0

StepsLeft ==
    (max_iterations - iterations_used - (IF pc = "loop" THEN 1 ELSE 0)) * 10 + PcRank

LastSubWrites ==
    LET n == Len(report.fix_log) - subLog
    IN  Range(SubSeq(writes, Len(writes) - n + 1, Len(writes)))

\* the keys whose price the sub-pass name changed
ChangedBy(name) == {k \in DOMAIN prices : prices[k] # subStart[name][k]}

\* C15: the deductible sub-pass changes and writes only 200 and 500 keys of
\* (product, variant) groups with a 100 key in which it detected a
\* violation, never a 100 key; the variant sub-pass changes and writes only
\* comfort and premium keys of (product, deductible) groups with a base in
\* which it detected a violation, never a compact or basic key.
C15_LadderAnchorsKept ==
    /\ (lastSub = "deductible" /\ pc = "variant") =>
        LET grouped == group_by_product_and_variant(items)
        IN  \A k \in ChangedBy("deductible") \cup LastSubWrites :
                LET it == ItemOf(items, k)
                    m == grouped[<<it.product, it.variant>>]
                IN  /\ it.deductible \in {200, 500}
                    /\ m[it.deductible] = k
                    /\ 100 \in DOMAIN m
                    /\ DeductibleViolates(subStart["deductible"], m)
    /\ (lastSub = "variant" /\ pc = "fix_return") =>
        LET grouped == group_by_product_and_deductible(items)
        IN  \A k \in ChangedBy("variant") \cup LastSubWrites :
                LET it == ItemOf(items, k)
                    m == grouped[<<it.product, it.deductible>>]
                IN  /\ it.variant \in {"COMFORT", "PREMIUM"}
                    /\ m[it.variant] = k
                    /\ BaseKeys(m) # <<>>
                    /\ VariantViolates(subStart["variant"], m)

\* a pass in which both ladder sub-passes rebuilt a group and left others alone
C15_Witness ==
    /\ lastSub = "variant"
    /\ pc = "fix_return"
    /\ ChangedBy("variant") # {}
    /\ subStart["variant"] # subStart["deductible"]
    /\ \E k \in DOMAIN prices :
        /\ k # mtpl_key
        /\ ItemOf(items, k).variant = "COMFORT"
        /\ k \notin ChangedBy("variant")

(***************************************************************************)
(* C16: the fixer against the validator                                    *)
(***************************************************************************)
PositiveAtPassStart == \A k \in DOMAIN passStart : RPos(passStart[k])

\* C16: a fixer pass the engine runs (validation has just found a
\* violation) on a table of strictly positive prices changes at least one
\* price and returns true, so the engine does not stall.
C16_FixerActsOnEveryViolation ==
    (mode = "engine" /\ pc = "fix_return" /\ current # <<>> /\ PositiveAtPassStart)
        => (changed /\ prices # passStart)

(***************************************************************************)
(* C17: the convergence flag against the final validation                  *)
(***************************************************************************)
\* C17: whenever validate_and_fix returns with violations_after empty,
\* converged is true, also when the loop ended at max_iterations right
\* after a fixer pass.
C17_ConvergedIsComplete ==
    (mode = "engine" /\ pc = "done" /\ outcome = "FixResult"
        /\ report.violations_after = <<>>) => converged

(***************************************************************************)
(* C18: number of violations before and after                              *)
(***************************************************************************)
\* C18: in every run that returns a result, convergent or not,
\* violations_after has at most as many violations as violations_before,
\* and no fixer pass leaves the table with more violations than the input had.
C18_NeverWorse ==
    /\ (mode = "engine" /\ pc = "done" /\ outcome = "FixResult")
        => Len(report.violations_after) <= Len(report.violations_before)
    /\ (mode = "engine" /\ pc = "fix_return")
        => Len(validate(prices, items)) <= Len(report.violations_before)

====
